---- MODULE Spec2Model ----
(***************************************************************************)
(* TeslaFallbackManager (src/unnamed/part_003, lines 6-538): the strategy  *)
(* catalog, capability detection, the selector (selectBestMethod and its   *)
(* two optimize passes), the executor (executeWithFallback) and the        *)
(* metrics (recordSuccess, recordFailure, updateMetrics, resetMetrics).    *)
(***************************************************************************)
EXTENDS Integers, Sequences, FiniteSets, TLC

(***************************************************************************)
(* Bounds of the model.                                                    *)
(***************************************************************************)
\* executeWithFallback calls started in one behaviour
MaxCalls == 2
\* direct recordSuccess / recordFailure calls in one behaviour (SpecRecord)
MaxRecords == 7
\* recordFailure calls in one behaviour of the long run (SpecHistory)
MaxHistoryRecords == 53

(***************************************************************************)
(* IEEE-754 doubles near the success rates.  A double x that the program   *)
(* can store is written [k, d] and stands for                              *)
(*      x = (2^55 + k*C01 + d) * 2^-56,   C01 = 7205759403792794,          *)
(* where C01 * 2^-56 is the double nearest to 0.1 (0x3FB999999999999A) and *)
(* 5*C01 = 2^55 + 2.  So [0,0] is 0.5, [5,-2] is 1, [-5,2] is 0, [1,-2] is *)
(* the double 0.6 and [-5,4] is 2^-55 (what 0.5 - 0.1*5 leaves).  x + 0.1  *)
(* is [k+1, d] rounded to nearest-even on the grid of its binade; the      *)
(* rounding needs only the sum modulo 32, and 2^55 mod 32 = 0.             *)
(***************************************************************************)
C01Mod32 == 26

Dbl(k, d) == [k |-> k, d |-> d]
Zero == Dbl(-5, 2)
Half == Dbl(0, 0)
One == Dbl(5, -2)

\* spacing of the doubles around [k, d], in units of 2^-56
Ulp(k, d) ==
    IF k > 5 \/ (k = 5 /\ d >= -2) THEN 16
    ELSE IF k > 0 \/ (k = 0 /\ d >= 0) THEN 8
    ELSE IF k >= -2 THEN 4
    ELSE IF k = -3 THEN 2
    ELSE IF k >= -6 THEN 1
    ELSE IF k = -7 THEN 2
    ELSE 4

\* round-to-nearest, ties to even
RoundDbl(k, d) ==
    LET g == Ulp(k, d)
        s == (k * C01Mod32 + d) % (2 * g)
        r == s % g
    IN  IF 2 * r < g THEN Dbl(k, d - r)
        ELSE IF 2 * r > g THEN Dbl(k, d - r + g)
        ELSE IF s < g THEN Dbl(k, d - r)
        ELSE Dbl(k, d - r + g)

\* x + 0.1 and x - 0.1 in double arithmetic
AddTenth(x) == RoundDbl(x.k + 1, x.d)
SubTenth(x) == RoundDbl(x.k - 1, x.d)

DblLeq(x, y) == x.k < y.k \/ (x.k = y.k /\ x.d <= y.d)
DblMin(x, y) == IF DblLeq(x, y) THEN x ELSE y
DblMax(x, y) == IF DblLeq(x, y) THEN y ELSE x

\* x rounded to three decimals, times 1000 (|x - Milli/1000| < 10^-15)
Milli(x) == 500 + 100 * x.k

(***************************************************************************)
(* The catalog: this.methods, in registration order.                       *)
(***************************************************************************)
MethodNames == {"webrtc", "proxy", "transcode", "direct"}

Catalog ==
    << [name |-> "webrtc", priority |-> 1, timeout |-> 10000, retries |-> 2,
        requirements |-> {"webrtc_support", "websocket_support"}],
       [name |-> "proxy", priority |-> 2, timeout |-> 15000, retries |-> 3,
        requirements |-> {"proxy_server"}],
       [name |-> "transcode", priority |-> 3, timeout |-> 30000, retries |-> 2,
        requirements |-> {"proxy_server", "ffmpeg_support"}],
       [name |-> "direct", priority |-> 4, timeout |-> 20000, retries |-> 1,
        requirements |-> {}] >>

Capabilities ==
    {"webrtc_support", "websocket_support", "proxy_server", "ffmpeg_support"}

\* lightweightOrder.indexOf(name)
LightweightOrder == <<"direct", "proxy", "transcode", "webrtc">>

IndexOf(seq, x) ==
    IF \E i \in 1..Len(seq) : seq[i] = x
    THEN (CHOOSE i \in 1..Len(seq) : seq[i] = x) - 1
    ELSE -1

\* the limits of the two histories
HistoryLimit == 50
ConnectionTimeLimit == 100
ErrorRateWindow == 20
BackoffBase == 1000

\* Array.prototype.sort (stable) of a list of methods; the comparator cmp
\* is given as a function of the names of the two methods it compares
StableSort(s, cmp) ==
    LET n == Len(s)
        pos(i) == 1 + Cardinality({j \in (1..n) \ {i} :
                        \/ cmp[s[j].name, s[i].name] < 0
                        \/ (cmp[s[j].name, s[i].name] = 0 /\ j < i)})
    IN  [p \in 1..n |-> s[CHOOSE i \in 1..n : pos(i) = p]] \o << >>

\* Array.prototype.filter
RECURSIVE Filter(_, _)
Filter(s, keep) ==
    IF s = << >> THEN << >>
    ELSE IF Head(s).name \in keep THEN <<Head(s)>> \o Filter(Tail(s), keep)
    ELSE Filter(Tail(s), keep)

Names(s) == [i \in 1..Len(s) |-> s[i].name] \o << >>

(***************************************************************************)
(* State.                                                                  *)
(***************************************************************************)
VARIABLES
    env,            \* the environment: capability tags that really hold
    initPc,         \* position of initializeCapabilityDetection
    deviceInfo,     \* this.deviceInfo
    networkInfo,    \* this.networkInfo
    available,      \* method.available of every catalog entry
    methods,        \* this.methods: the other fields of the catalog entries
    currentMethod,  \* this.currentMethod (name)
    successRate,    \* this.metrics.successRate, keyed by the names present
    connectionTime, \* this.metrics.connectionTime (method names)
    errorRate,      \* this.metrics.errorRate, as failures / records
    attemptHistory, \* this.attemptHistory
    call,           \* the executeWithFallback calls
    selection,      \* how the latest selectBestMethod call ended
    nCalls,         \* executeWithFallback calls started
    nRecords,       \* direct record calls made
    report,         \* the latest object returned by getPerformanceReport
    test,           \* the TeslaAutomatedTest object and navigator.connection
    plan,           \* the order selectBestMethod computed for a call, noted
                    \* by an observer where a specification has one
    server          \* the WebRTCSignalServer: clients, rooms, messages sent

vars == <<env, initPc, deviceInfo, networkInfo, available, methods,
          currentMethod,
          successRate, connectionTime, errorRate, attemptHistory, call,
          selection, nCalls, nRecords, report, test, plan, server>>

detectVars == <<env, initPc, deviceInfo, networkInfo, available>>
engineVars == <<detectVars, methods>>
metricVars == <<successRate, connectionTime, errorRate, attemptHistory>>

\* the entry of this.methods with the name n
CatalogEntry(n) == methods[CHOOSE i \in 1..Len(methods) : methods[i].name = n]

Calls == {"c1", "c2"}
MainCall == "c1"

NullDevice == [null |-> TRUE, webrtc_support |-> FALSE,
               websocket_support |-> FALSE]
\* null or undefined in a numeric field
Absent == -1

NullNetwork == [null |-> TRUE, effective_type |-> "unknown",
                downlink |-> Absent, bandwidth_estimate |-> Absent]

\* what detectNetworkCapabilities can measure: effectiveType, downlink in
\* kbit/s and the bandwidth estimate in bit/s
NetworkSample(type, downlink, estimate) ==
    [null |-> FALSE, effective_type |-> type, downlink |-> downlink,
     bandwidth_estimate |-> estimate]

NetworkSamples ==
    {NetworkSample("2g", 500, 800000), NetworkSample("3g", Absent, Absent),
     NetworkSample("4g", 20000, 20000000),
     NetworkSample("unknown", Absent, Absent)}

\* the samples of the classifier's specification: every label with
\* downlinks and estimates absent, zero and on both sides of the limits
EffectiveTypes == {"slow-2g", "2g", "3g", "4g", "unknown"}
Downlinks == {Absent, 0, 975, 1000, 9975, 10000}
BandwidthEstimates == {Absent, 0, 999999, 1000000, 9999999, 10000000}

AllNetworkSamples ==
    {NetworkSample(type, downlink, estimate) :
        type \in EffectiveTypes, downlink \in Downlinks,
        estimate \in BandwidthEstimates}

\* the truthiness of a numeric field: if (downlink), if (bandwidth_estimate)
Truthy(x) == x # Absent /\ x # 0

\* what the promise of playFunction does: it resolves or rejects before the
\* attempt's timeout, or it is still pending when the timeout fires ("late":
\* it may resolve afterwards, or never)
Behaviours == {"resolve", "reject", "late"}

\* the playFunction arguments of the model: the operations of the methods
\* in failing all fail in the same way, the other operations resolve
PlayFunction(failing, how) ==
    [n \in MethodNames |-> IF n \in failing THEN how ELSE "resolve"]

\* the playFunction arguments that differ on the methods of the list tried
PlayFunctions(tried) ==
    {PlayFunction(failing, how) :
        failing \in SUBSET {tried[i] : i \in 1..Len(tried)},
        how \in Behaviours \ {"resolve"}}

\* the environments of the model: every capability is absent from one
Environments ==
    { {},
      {"webrtc_support", "websocket_support"},
      {"proxy_server", "ffmpeg_support"},
      {"websocket_support", "proxy_server"},
      Capabilities }

IdleCall ==
    [pc |-> "idle", playFunction |-> [n \in MethodNames |-> "resolve"],
     selected |-> "null", methodsToTry |-> << >>, mi |-> 0, attempt |-> 0,
     lastError |-> "null", outcome |-> "none", by |-> "null",
     errorEntries |-> << >>, timers |-> {}, ops |-> {}, log |-> << >>,
     recorded |-> << >>, aborted |-> FALSE]

\* successRate: {}
NoRates == [n \in {} |-> Half]

\* the fields of the object this.metrics that the model keeps
Metrics ==
    [successRate |-> successRate, connectionTime |-> connectionTime,
     errorRate |-> errorRate]

\* no report was asked for yet.  In a report, metrics is a reference: to
\* the object this.metrics of the engine (live), or to an object the
\* engine has dropped, with the fields it had then (value)
NoReport ==
    [taken |-> FALSE, currentMethod |-> "null",
     metrics |-> [live |-> FALSE, value |-> << >>],
     attemptHistory |-> << >>, methodAvailability |-> << >>,
     metricsWhenTaken |-> << >>]

\* the signalling server after construction: no client, no room.  issued
\* counts the client ids generated, sent is what the latest handler sent
\* and to whom, last is that handler and its message
NoServer ==
    [clients |-> [k \in {} |-> "null"], rooms |-> [r \in {} |-> {}],
     issued |-> 0, sent |-> {},
     last |-> [handler |-> "none", client |-> 0, type |-> "none"]]

\* no TeslaAutomatedTest was constructed yet.  downlink is the own property
\* downlink of navigator.connection as Object.defineProperty left it, given
\* by the bandwidth it was computed from (the division by 1024 * 1024 is
\* exact); selected is the latest result of selectOptimalMethod
NoTest ==
    [pc |-> "none", connection |-> FALSE, downlink |-> Absent,
     selected |-> [bandwidth |-> Absent, method |-> "null"],
     results |-> << >>, correctSelections |-> 0, outcome |-> "none"]

Init ==
    /\ env \in Environments
    /\ initPc = "device"
    /\ deviceInfo = NullDevice
    /\ networkInfo = NullNetwork
    /\ available = [n \in MethodNames |-> "undefined"]
    /\ methods = Catalog
    /\ currentMethod = "null"
    /\ successRate = NoRates
    /\ connectionTime = << >>
    /\ errorRate = [num |-> 0, den |-> 1]
    /\ attemptHistory = << >>
    /\ call = [c \in Calls |-> IdleCall]
    /\ selection = "none"
    /\ nCalls = 0
    /\ nRecords = 0
    /\ report = NoReport
    /\ test = NoTest
    /\ plan = [c \in Calls |-> << >>]
    /\ server = NoServer

(***************************************************************************)
(* Capability detection (initializeCapabilityDetection).                   *)
(***************************************************************************)
\* checkMethodRequirements: only the two device flags are looked at
CheckMethodRequirements(m) ==
    \A r \in m.requirements :
        CASE r = "webrtc_support" ->
                 ~deviceInfo.null /\ deviceInfo.webrtc_support
          [] r = "websocket_support" ->
                 ~deviceInfo.null /\ deviceInfo.websocket_support
          [] r = "proxy_server" -> TRUE
          [] r = "ffmpeg_support" -> TRUE

\* this.deviceInfo = await this.detectDeviceCapabilities()
DetectDevice ==
    /\ initPc = "device"
    /\ deviceInfo' = [null |-> FALSE,
                      webrtc_support |-> "webrtc_support" \in env,
                      websocket_support |-> "websocket_support" \in env]
    /\ initPc' = "network"
    /\ UNCHANGED <<env, networkInfo, available, methods,
                   currentMethod, metricVars, call,
                   selection, nCalls, nRecords, report, test, plan, server>>

\* detectDeviceCapabilities throws (no navigator / document): the catch of
\* initializeCapabilityDetection logs and the detection stops
DetectDeviceThrows ==
    /\ initPc = "device"
    /\ initPc' = "failed"
    /\ UNCHANGED <<env, deviceInfo, networkInfo, available,
                   methods, currentMethod, metricVars,
                   call, selection, nCalls, nRecords,
                   report, test, plan, server>>

\* this.networkInfo = await this.detectNetworkCapabilities()
DetectNetwork ==
    /\ initPc = "network"
    /\ networkInfo' \in NetworkSamples
    /\ initPc' = "methods"
    /\ UNCHANGED <<env, deviceInfo, available, methods,
                   currentMethod, metricVars, call,
                   selection, nCalls, nRecords, report, test, plan, server>>

\* this.networkInfo = await this.detectNetworkCapabilities(), with any of
\* the samples of the classifier's specification
DetectNetworkCapabilities ==
    /\ initPc = "network"
    /\ networkInfo' \in AllNetworkSamples
    /\ initPc' = "methods"
    /\ UNCHANGED <<env, deviceInfo, available, methods,
                   currentMethod, metricVars, call,
                   selection, nCalls, nRecords, report, test, plan, server>>

\* one iteration of the loop of detectMethodAvailability
DetectMethodAvailability ==
    /\ initPc = "methods"
    /\ LET i == CHOOSE j \in 1..Len(methods) :
                  /\ available[methods[j].name] = "undefined"
                  /\ \A h \in 1..(j - 1) :
                        available[methods[h].name] # "undefined"
           m == methods[i]
       IN  /\ available' = [available EXCEPT ![m.name] =
                  IF CheckMethodRequirements(m) THEN "true" ELSE "false"]
           /\ initPc' = IF i = Len(methods) THEN "done" ELSE "methods"
    /\ UNCHANGED <<env, deviceInfo, networkInfo, methods,
                   currentMethod, metricVars, call,
                   selection, nCalls, nRecords, report, test, plan, server>>

(***************************************************************************)
(* The selector.                                                           *)
(***************************************************************************)
\* (a, b) => a.priority - b.priority
ByPriority ==
    [a \in MethodNames, b \in MethodNames |->
        CatalogEntry(a).priority - CatalogEntry(b).priority]

\* this.methods.filter(method => method.available)
AvailableNamesNotFalse == {n \in MethodNames : available[n] # "false"}
AvailableNames == {n \in MethodNames : available[n] = "true"}

\* selectBestMethod, lines 244-246
AvailableMethods == StableSort(Filter(methods, AvailableNames), ByPriority)

\* getNetworkSpeedCategory
GetNetworkSpeedCategory ==
    IF networkInfo.null THEN "unknown"
    ELSE IF networkInfo.effective_type \in {"slow-2g", "2g"} THEN "slow"
    ELSE IF networkInfo.effective_type = "3g" THEN "medium"
    ELSE IF networkInfo.effective_type = "4g" THEN "fast"
    ELSE IF Truthy(networkInfo.downlink) THEN
        IF networkInfo.downlink < 1000 THEN "slow"
        ELSE IF networkInfo.downlink < 10000 THEN "medium"
        ELSE "fast"
    ELSE IF Truthy(networkInfo.bandwidth_estimate) THEN
        IF networkInfo.bandwidth_estimate < 1000000 THEN "slow"
        ELSE IF networkInfo.bandwidth_estimate < 10000000 THEN "medium"
        ELSE "fast"
    ELSE "medium"

\* the copy optimizeMethodsByNetwork makes of one method
AdjustTimeoutOnly(m, speed) ==
    CASE speed = "slow" -> [m EXCEPT !.timeout = @ * 2]
      [] speed = "medium" -> [m EXCEPT !.timeout = (@ * 15) \div 10]
      [] speed = "fast" -> [m EXCEPT !.timeout = (@ * 8) \div 10]
      [] OTHER -> m

AdjustForNetwork(m, speed) ==
    CASE speed = "slow" ->
             [m EXCEPT !.timeout = @ * 2, !.retries = @ + 1]
      [] speed = "medium" -> [m EXCEPT !.timeout = (@ * 15) \div 10]
      [] speed = "fast" -> [m EXCEPT !.timeout = (@ * 8) \div 10]
      [] OTHER -> m

ByLightweight ==
    [a \in MethodNames, b \in MethodNames |->
        IndexOf(LightweightOrder, a) - IndexOf(LightweightOrder, b)]

\* optimizeMethodsByNetwork
OptimizeMethodsByNetwork(list) ==
    IF networkInfo.null THEN list
    ELSE LET speed == GetNetworkSpeedCategory
             mapped == [i \in 1..Len(list) |->
                           AdjustForNetwork(list[i], speed)] \o << >>
         IN  IF speed = "slow" THEN StableSort(mapped, ByLightweight)
             ELSE StableSort(mapped, ByPriority)

\* this.metrics.successRate[name] || 0.5
RateOrDefault(n) ==
    IF n \in DOMAIN successRate /\ successRate[n] # Zero
    THEN successRate[n] ELSE Half

\* rate || 0.5, and if (!rate) rate = 0.5, of a rate x read from the map
InitOr(x) == IF x = Zero THEN Half ELSE x

\* the score optimizeMethodsByHistory gives the strategy n when its stored
\* rate is x, times 10000
ScoreWithRate(n, x) ==
    7 * Milli(InitOr(x)) + 3000 * (5 - CatalogEntry(n).priority)

\* aScore of optimizeMethodsByHistory, times 10000
ScoreAvoidingCurrent(n) ==
    7 * Milli(RateOrDefault(n)) + 3000 * (5 - CatalogEntry(n).priority)
        - (IF n = currentMethod THEN 5000 ELSE 0)

Score(n) ==
    7 * Milli(RateOrDefault(n)) + 3000 * (5 - CatalogEntry(n).priority)

\* (a, b) => bScore - aScore
ByScoreAscending ==
    [a \in MethodNames, b \in MethodNames |-> Score(a) - Score(b)]
ByScore == [a \in MethodNames, b \in MethodNames |-> Score(b) - Score(a)]

\* optimizeMethodsByHistory
OptimizeMethodsByHistory(list) == StableSort(list, ByScore)

\* finalMethods of selectBestMethod
FinalMethods ==
    OptimizeMethodsByHistory(OptimizeMethodsByNetwork(AvailableMethods))

\* this.methods after selectBestMethod, had the adjustments been made on
\* the catalog entries themselves
MethodsAdjustedInPlace ==
    IF networkInfo.null THEN methods
    ELSE [i \in 1..Len(methods) |->
             IF methods[i].name \in AvailableNames
             THEN AdjustForNetwork(methods[i], GetNetworkSpeedCategory)
             ELSE methods[i]] \o << >>

\* this.methods after selectBestMethod: filter (line 245) makes a new
\* array, which is the one sorted, and map (line 275) fills its result with
\* copies ({ ...method }), which are the objects adjusted
MethodsAfterSelect == methods

\* selectBestMethod called on its own
SelectBestMethod ==
    /\ IF AvailableMethods = << >>
       THEN /\ selection' = "throw"
            /\ UNCHANGED <<currentMethod, methods>>
       ELSE /\ selection' = "ok"
            /\ currentMethod' = FinalMethods[1].name
            /\ methods' = MethodsAfterSelect
    /\ UNCHANGED <<detectVars, metricVars, call, nCalls,
                   nRecords, report, test, plan, server>>

(***************************************************************************)
(* The metrics.                                                            *)
(***************************************************************************)
\* obj[key] = value
Put(f, key, value) ==
    [n \in DOMAIN f \cup {key} |-> IF n = key THEN value ELSE f[n]]

\* if (!successRate[name]) successRate[name] = 0.5
RateOrInit(n) ==
    IF n \notin DOMAIN successRate \/ successRate[n] = Zero
    THEN Half ELSE successRate[n]

\* rate + 0.1 and rate - 0.1
RateStepTwice(x) == AddTenth(AddTenth(x))
RateStep(x) == AddTenth(x)
RateDrop(x) == SubTenth(x)

\* Math.min(1, rate + 0.1) and Math.max(0, rate - 0.1)
RateAfterSuccessUnclamped(n) == RateStep(RateOrInit(n))
RateAfterSuccessFromStaleRead(n) == DblMin(One, RateStep(Half))
RateAfterSuccess(n) == DblMin(One, RateStep(RateOrInit(n)))
RateAfterFailure(n) == DblMax(Zero, RateDrop(RateOrInit(n)))

\* the stored rate of a strategy after f failures, or after s successes,
\* recorded on a new engine and nothing else recorded of it; before the
\* first record nothing is stored, which every reader of the rate treats
\* like a stored 0
RECURSIVE RateAfterFailures(_)
RateAfterFailures(f) ==
    IF f = 0 THEN Zero
    ELSE DblMax(Zero, RateDrop(InitOr(RateAfterFailures(f - 1))))

RECURSIVE RateAfterSuccesses(_)
RateAfterSuccesses(s) ==
    IF s = 0 THEN Zero
    ELSE DblMin(One, RateStep(InitOr(RateAfterSuccesses(s - 1))))

\* push, then shift once when the array is longer than the limit
PushLimitedDropsNewest(s, x, limit) ==
    LET t == Append(s, x) IN IF Len(t) > limit THEN SubSeq(t, 1, limit) ELSE t
PushLimited(s, x, limit) ==
    LET t == Append(s, x) IN IF Len(t) > limit THEN Tail(t) ELSE t

\* attemptHistory.slice(-n)
LastN(s, n) == IF Len(s) <= n THEN s ELSE SubSeq(s, Len(s) - n + 1, Len(s))

\* updateMetrics: the error rate over the last 20 records of the history
ErrorRateOf(history) ==
    LET recent == LastN(history, ErrorRateWindow)
        failures == Cardinality({i \in 1..Len(recent) : ~recent[i].success})
    IN  IF Len(recent) > 0 THEN [num |-> failures, den |-> Len(recent)]
        ELSE [num |-> 0, den |-> 1]

\* recordSuccess(method, time)
RecordSuccess(n) ==
    /\ successRate' = Put(successRate, n, RateAfterSuccess(n))
    /\ connectionTime' = PushLimited(connectionTime, n, ConnectionTimeLimit)
    /\ attemptHistory' = attemptHistory
    /\ errorRate' = ErrorRateOf(attemptHistory)

\* recordFailure(method, error, time)
RecordFailure(n, error) ==
    /\ successRate' = Put(successRate, n, RateAfterFailure(n))
    /\ attemptHistory' = PushLimited(attemptHistory,
            [method |-> n, success |-> FALSE, error |-> error], HistoryLimit)
    /\ connectionTime' = connectionTime
    /\ errorRate' = ErrorRateOf(attemptHistory')

\* resetMetrics
ResetMetricsKeepingRates ==
    /\ successRate' = successRate
    /\ connectionTime' = << >>
    /\ errorRate' = [num |-> 0, den |-> 1]
    /\ attemptHistory' = << >>
    /\ report' = IF report.metrics.live
                 THEN [report EXCEPT !.metrics =
                          [live |-> FALSE, value |-> Metrics]]
                 ELSE report
    /\ UNCHANGED <<engineVars, currentMethod, call, selection,
                   nCalls, nRecords, test, plan, server>>

ResetMetrics ==
    /\ successRate' = NoRates
    /\ connectionTime' = << >>
    /\ errorRate' = [num |-> 0, den |-> 1]
    /\ attemptHistory' = << >>
    /\ report' = IF report.metrics.live
                 THEN [report EXCEPT !.metrics =
                          [live |-> FALSE, value |-> Metrics]]
                 ELSE report
    /\ UNCHANGED <<engineVars, currentMethod, call, selection,
                   nCalls, nRecords, test, plan, server>>

\* attemptHistory.slice(-10)
ReportHistoryLength == 10

\* successRate[name] || 0
RateOrZero(n) == IF n \in DOMAIN successRate THEN successRate[n] ELSE Zero

\* getPerformanceReport: metrics is this.metrics itself, the history is a
\* new array and methodAvailability is made of new objects
PerformanceReport ==
    [taken |-> TRUE, currentMethod |-> currentMethod,
     metrics |-> [live |-> TRUE, value |-> << >>],
     attemptHistory |-> LastN(attemptHistory, ReportHistoryLength),
     methodAvailability |->
         [i \in 1..Len(methods) |->
             [name |-> methods[i].name,
              available |-> available[methods[i].name],
              successRate |-> RateOrZero(methods[i].name)]] \o << >>,
     metricsWhenTaken |-> Metrics]

GetPerformanceReport ==
    /\ report' = PerformanceReport
    /\ UNCHANGED <<engineVars, currentMethod, metricVars, call, selection,
                   nCalls, nRecords, test, plan, server>>

(***************************************************************************)
(* The executor: executeWithFallback.                                      *)
(***************************************************************************)
\* line 380 declares attemptStartTime with const inside the try block
\* (lines 379-400); line 403 reads it in the catch block, where the name is
\* not in scope: the read throws a ReferenceError
AttemptStartTimeDeclaredBeforeTry == TRUE
AttemptStartTimeInCatchScope == FALSE

\* the comparator of methodsToTry, lines 369-373
SelectedFirst(sel) ==
    [a \in MethodNames, b \in MethodNames |->
        IF a = sel THEN -1
        ELSE IF b = sel THEN 1
        ELSE CatalogEntry(a).priority - CatalogEntry(b).priority]

\* methodsToTry, lines 367-373: catalog entries, the selected one first
MethodsToTry(sel) ==
    Names(StableSort(Filter(methods, AvailableNames), SelectedFirst(sel)))

\* lines 380-390 of one attempt: the timeout timer is set, playFunction is
\* called and the race is awaited
BeginAttemptWithoutTimeout(cr, mi, attempt) ==
    LET m == CatalogEntry(cr.methodsToTry[mi])
        id == Len(cr.log) + 1
    IN  [cr EXCEPT !.pc = "racing", !.mi = mi, !.attempt = attempt,
                   !.ops = @ \cup {id},
                   !.log = Append(@, [method |-> m.name, attempt |-> attempt,
                                      timeout |-> m.timeout,
                                      raced |-> "pending"])]

BeginAttempt(cr, mi, attempt) ==
    LET m == CatalogEntry(cr.methodsToTry[mi])
        id == Len(cr.log) + 1
    IN  [cr EXCEPT !.pc = "racing", !.mi = mi, !.attempt = attempt,
                   !.timers = @ \cup {[id |-> id, kind |-> "timeout",
                                      ms |-> m.timeout]},
                   !.ops = @ \cup {id},
                   !.log = Append(@, [method |-> m.name, attempt |-> attempt,
                                      timeout |-> m.timeout,
                                      raced |-> "pending"])]

\* the head of the outer loop (line 375) at position mi, and lines 417-422
\* once the list is exhausted
EnterMethod(cr, mi) ==
    IF mi > Len(cr.methodsToTry)
    THEN [cr EXCEPT !.pc = "threw", !.outcome = "AllFailed", !.mi = mi,
                    !.errorEntries = << >>]
    ELSE BeginAttempt(cr, mi, 0)

\* the method of the attempt in progress
CurrentMethodOf(cr) == CatalogEntry(cr.methodsToTry[cr.mi])

\* executeWithFallback up to the await of selectBestMethod, lines 361-366
ExecuteWithFallbackEntry(c) ==
    /\ call[c].pc \in {"idle", "returned", "threw"}
    /\ nCalls < MaxCalls
    /\ nCalls' = nCalls + 1
    /\ IF AvailableMethods = << >>
       THEN /\ selection' = "throw"
            /\ call' = [call EXCEPT ![c] =
                   [IdleCall EXCEPT !.pc = "threw",
                                    !.outcome = "NoAvailable"]]
            /\ UNCHANGED <<currentMethod, methods>>
       ELSE LET selected == FinalMethods[1].name
            IN  /\ selection' = "ok"
                /\ currentMethod' = selected
                /\ methods' = MethodsAfterSelect
                /\ call' = [call EXCEPT ![c] =
                       [IdleCall EXCEPT !.pc = "selected",
                                        !.selected = selected]]
    /\ UNCHANGED <<detectVars, metricVars, nRecords, report, test, server>>

ExecuteWithFallback(c) ==
    /\ ExecuteWithFallbackEntry(c)
    /\ UNCHANGED plan

\* the same with an observer of selectBestMethod, which notes finalMethods
\* (line 257) before the function returns its first name only (line 264)
ExecuteWithFallbackObserved(c) ==
    /\ ExecuteWithFallbackEntry(c)
    /\ plan' = [plan EXCEPT ![c] =
           IF AvailableMethods = << >> THEN << >> ELSE Names(FinalMethods)]

\* lines 367-390: methodsToTry and the first attempt; what the caller's
\* playFunction does with each method of the list is fixed here, before
\* its first use
StartAttempts(c) ==
    /\ call[c].pc = "selected"
    /\ LET cr == call[c]
           tried == MethodsToTry(cr.selected)
       IN  \E pf \in PlayFunctions(tried) :
              call' = [call EXCEPT ![c] =
                 EnterMethod([cr EXCEPT !.methodsToTry = tried,
                                        !.playFunction = pf], 1)]
    /\ UNCHANGED <<engineVars, currentMethod, metricVars,
                   selection, nCalls, nRecords, report, test, plan, server>>

\* lines 392-399: the race was won by the operation's result
TrySucceedsAndGoesOn(c) ==
    LET cr == call[c]
        m == CurrentMethodOf(cr)
    IN  /\ RecordSuccess(m.name)
        /\ call' = [call EXCEPT ![c] =
               EnterMethod(
                   [cr EXCEPT !.by = m.name, !.ops = @ \ {Len(cr.log)},
                              !.log[Len(cr.log)].raced = "resolved",
                              !.recorded = Append(@, [id |-> Len(cr.log),
                                    method |-> m.name, success |-> TRUE])],
                   cr.mi + 1)]

TrySucceeds(c) ==
    LET cr == call[c]
        m == CurrentMethodOf(cr)
    IN  /\ RecordSuccess(m.name)
        /\ call' = [call EXCEPT ![c] =
               [cr EXCEPT !.pc = "returned", !.outcome = "result",
                          !.by = m.name, !.ops = @ \ {Len(cr.log)},
                          !.log[Len(cr.log)].raced = "resolved",
                          !.recorded = Append(@, [id |-> Len(cr.log),
                                method |-> m.name, success |-> TRUE])]]

\* lines 401-413, the catch block, and the loop heads it falls back to
CatchBlock(c, error, spent) ==
    LET id == Len(call[c].log)
        cr == [call[c] EXCEPT !.lastError = error,
                              !.ops = @ \ spent.ops,
                              !.timers = @ \ spent.timers,
                              !.log[id].raced = error]
        m == CurrentMethodOf(cr)
        rec == [cr EXCEPT !.recorded = Append(@, [id |-> id,
                                method |-> m.name, success |-> FALSE])]
    IN  IF ~AttemptStartTimeInCatchScope
        THEN /\ call' = [call EXCEPT ![c] =
                    [cr EXCEPT !.pc = "threw", !.outcome = "ReferenceError"]]
             /\ UNCHANGED metricVars
        ELSE /\ RecordFailure(m.name, error)
             /\ call' = [call EXCEPT ![c] =
                    IF cr.attempt < m.retries - 1
                    THEN [rec EXCEPT !.pc = "delay",
                            !.timers = @ \cup
                               {[id |-> id, kind |-> "delay",
                                 ms |-> BackoffBase * (cr.attempt + 1)]}]
                    ELSE EnterMethod(rec, cr.mi + 1)]

\* the promise returned by playFunction settles
OperationSettles(c) ==
    \E id \in call[c].ops :
        LET cr == call[c]
            beh == cr.playFunction[cr.log[id].method]
            timedOut == \A t \in cr.timers :
                            ~(t.id = id /\ t.kind = "timeout")
            racing == cr.pc = "racing" /\ id = Len(cr.log)
        IN  /\ beh = "late" => timedOut
            /\ IF racing /\ beh = "resolve" THEN TrySucceeds(c)
               ELSE IF racing
               THEN CatchBlock(c, "rejected", [ops |-> {id}, timers |-> {}])
               ELSE /\ call' = [call EXCEPT ![c].ops = @ \ {id}]
                    /\ UNCHANGED metricVars
            /\ UNCHANGED <<engineVars, currentMethod, selection, nCalls,
                           nRecords, report, test, plan, server>>

\* a setTimeout callback runs: the timeout of an attempt (line 384) or the
\* backoff delay (lines 411, 522)
TimerFires(c) ==
    \E t \in call[c].timers :
        LET cr == call[c]
            racing == cr.pc = "racing" /\ t.id = Len(cr.log)
        IN  /\ (t.kind = "timeout" /\ t.id \in cr.ops)
                   => cr.playFunction[cr.log[t.id].method] = "late"
            /\ IF t.kind = "timeout" /\ racing
               THEN CatchBlock(c, "timeout", [ops |-> {}, timers |-> {t}])
               ELSE IF t.kind = "delay"
               THEN /\ call' = [call EXCEPT ![c] =
                          BeginAttempt([cr EXCEPT !.timers = @ \ {t}],
                                       cr.mi, cr.attempt + 1)]
                    /\ UNCHANGED metricVars
               ELSE /\ call' = [call EXCEPT ![c].timers = @ \ {t}]
                    /\ UNCHANGED metricVars
            /\ UNCHANGED <<engineVars, currentMethod, selection, nCalls,
                           nRecords, report, test, plan, server>>

\* the caller gives up a call in progress.  executeWithFallback takes
\* playFunction and its arguments only (line 361): no signal, no handle,
\* and nothing in lines 361-423 reads a request to stop, so the engine is
\* left as it is; aborted notes the caller's request
CallerAborts(c) ==
    /\ call[c].pc \in {"selected", "racing", "delay"}
    /\ ~call[c].aborted
    /\ call' = [call EXCEPT ![c].aborted = TRUE]
    /\ UNCHANGED <<engineVars, currentMethod, metricVars, selection,
                   nCalls, nRecords, report, test, plan, server>>

(***************************************************************************)
(* The smart-fallback test of TeslaAutomatedTest.                          *)
(***************************************************************************)
\* teslaEnvironment.networkConditions.downloadThroughput: 1.5 * 1024 * 1024
DownloadThroughput == 1572864

\* the bandwidths selectOptimalMethod is asked about
Bandwidths ==
    {k * 100000 : k \in 0..50}
        \cup {799999, 800001, 2999999, 3000001, DownloadThroughput}

\* testScenarios
TestScenarios ==
    <<[bandwidth |-> 5000000, expected |-> "direct"],
      [bandwidth |-> 1000000, expected |-> "proxy"],
      [bandwidth |-> 500000, expected |-> "transcode"]>>

\* selectOptimalMethod
SelectOptimalMethod(bandwidth) ==
    IF bandwidth > 3000000 THEN "direct"
    ELSE IF bandwidth > 800000 THEN "proxy"
    ELSE "transcode"

\* Object.defineProperty(navigator.connection, 'downlink', {value,
\* writable: false}): the property it creates is neither writable nor
\* configurable, so defining it again succeeds with the same value only
\* and throws a TypeError with another one
DefineDownlinkThrows(t, bandwidth) ==
    t.connection /\ t.downlink # Absent /\ t.downlink # bandwidth

DefineDownlink(t, bandwidth) ==
    IF t.connection THEN [t EXCEPT !.downlink = bandwidth] ELSE t

\* new TeslaAutomatedTest(): init calls simulateNetworkConditions, which
\* defines downlink where the browser has navigator.connection
NewTeslaAutomatedTest ==
    /\ test.pc = "none"
    /\ \E connection \in BOOLEAN :
          test' = DefineDownlink(
                      [test EXCEPT !.pc = "ready",
                                   !.connection = connection],
                      DownloadThroughput)
    /\ UNCHANGED <<engineVars, currentMethod, metricVars, call, selection,
                   nCalls, nRecords, report, plan, server>>

\* a call of selectOptimalMethod(bandwidth)
SelectOptimalMethodCall ==
    /\ test.pc = "ready"
    /\ \E bandwidth \in Bandwidths :
          test' = [test EXCEPT !.selected =
                      [bandwidth |-> bandwidth,
                       method |-> SelectOptimalMethod(bandwidth)]]
    /\ UNCHANGED <<engineVars, currentMethod, metricVars, call, selection,
                   nCalls, nRecords, report, plan, server>>

\* the loop of testSmartFallback from scenario i on, with the accuracy
\* check that follows it
RECURSIVE RunScenarios(_, _)
RunScenarios(t, i) ==
    IF i > Len(TestScenarios)
    THEN LET correct == Cardinality({j \in 1..Len(t.results) :
                                        t.results[j].correct})
         IN  [t EXCEPT !.correctSelections = correct,
                       !.outcome = IF 10 * correct < 8 * Len(t.results)
                                   THEN "Error" ELSE "returned"]
    ELSE LET scenario == TestScenarios[i]
             selectedMethod == SelectOptimalMethod(scenario.bandwidth)
         IN  IF DefineDownlinkThrows(t, scenario.bandwidth)
             THEN [t EXCEPT !.outcome = "TypeError"]
             ELSE RunScenarios(
                      [DefineDownlink(t, scenario.bandwidth) EXCEPT
                          !.selected = [bandwidth |-> scenario.bandwidth,
                                        method |-> selectedMethod],
                          !.results = Append(@,
                              [bandwidth |-> scenario.bandwidth,
                               expected |-> scenario.expected,
                               selected |-> selectedMethod,
                               correct |->
                                   selectedMethod = scenario.expected])],
                      i + 1)

\* testSmartFallback, which has no await: it runs in one piece
TestSmartFallback ==
    /\ test.pc = "ready"
    /\ test' = RunScenarios([test EXCEPT !.results = << >>,
                                         !.correctSelections = 0,
                                         !.outcome = "none"], 1)
    /\ UNCHANGED <<engineVars, currentMethod, metricVars, call, selection,
                   nCalls, nRecords, report, plan, server>>

(***************************************************************************)
(* The signalling server: WebRTCSignalServer.                              *)
(***************************************************************************)
\* the connections accepted in a run, and the room ids clients ask for
MaxClients == 3
RoomIds == {"r1", "r2"}

\* the message types that relayMessage forwards
RelayTypes == {"offer", "answer", "ice-candidate"}

\* everything but the server
browserVars == <<engineVars, currentMethod, metricVars, call, selection,
                 nCalls, nRecords, report, test, plan>>

\* Map.delete
Without(f, key) == [k \in DOMAIN f \ {key} |-> f[k]]

\* sendMessage: the message goes out when the client is in this.clients
\* (its socket is open as long as it is)
SendMessage(sv, to, type, from) ==
    IF to \in DOMAIN sv.clients
    THEN {[to |-> to, type |-> type, from |-> from]}
    ELSE {}

\* broadcastToRoom(roomId, message, excludeClientId)
BroadcastToRoom(sv, roomId, type, from, exclude) ==
    IF roomId \notin DOMAIN sv.rooms THEN {}
    ELSE {[to |-> k, type |-> type, from |-> from] :
             k \in (sv.rooms[roomId] \ {exclude}) \cap DOMAIN sv.clients}

\* handleWebSocketConnection: a new id (generateClientId), no room
HandleWebSocketConnection ==
    /\ server.issued < MaxClients
    /\ LET id == server.issued + 1
           sv == [server EXCEPT !.clients = Put(@, id, "null"),
                                !.issued = id]
       IN  server' = [sv EXCEPT
               !.sent = SendMessage(sv, id, "welcome", id),
               !.last = [handler |-> "connect", client |-> id,
                         type |-> "welcome"]]
    /\ UNCHANGED browserVars

\* handleJoinRoom as it leaves the server sv
JoinRoom(sv, id, roomId) ==
    IF roomId = ""
    THEN [sv EXCEPT !.sent = SendMessage(sv, id, "error", id)]
    ELSE LET members == IF roomId \in DOMAIN sv.rooms
                        THEN sv.rooms[roomId] ELSE {}
             joined == [sv EXCEPT
                           !.clients[id] = roomId,
                           !.rooms = Put(@, roomId, members \cup {id})]
         IN  [joined EXCEPT !.sent =
                 SendMessage(joined, id, "room-joined", id)
                     \cup BroadcastToRoom(joined, roomId, "peer-joined",
                                          id, id)]

\* a join message of a connected client
HandleJoinRoom ==
    /\ \E id \in DOMAIN server.clients, roomId \in RoomIds \cup {""} :
          server' = [JoinRoom(server, id, roomId) EXCEPT
                        !.last = [handler |-> "join", client |-> id,
                                  type |-> "join"]]
    /\ UNCHANGED browserVars

\* handleLeaveRoom as it leaves the server sv
LeaveRoom(sv, id) ==
    IF id \notin DOMAIN sv.clients \/ sv.clients[id] = "null"
    THEN [sv EXCEPT !.sent = {}]
    ELSE LET roomId == sv.clients[id]
         IN  IF roomId \notin DOMAIN sv.rooms
             THEN [sv EXCEPT !.clients[id] = "null", !.sent = {}]
             ELSE LET members == sv.rooms[roomId] \ {id}
                      left == [sv EXCEPT !.rooms[roomId] = members]
                      told == BroadcastToRoom(left, roomId, "peer-left",
                                              id, id)
                  IN  [left EXCEPT
                          !.rooms = IF members = {}
                                    THEN Without(@, roomId) ELSE @,
                          !.clients[id] = "null",
                          !.sent = told]

\* a leave message of a connected client
HandleLeaveRoom ==
    /\ \E id \in DOMAIN server.clients :
          server' = [LeaveRoom(server, id) EXCEPT
                        !.last = [handler |-> "leave", client |-> id,
                                  type |-> "leave"]]
    /\ UNCHANGED browserVars

\* relayMessage: an offer, answer or ice-candidate of a connected client
RelayMessage ==
    /\ \E id \in DOMAIN server.clients, type \in RelayTypes :
          server' = [server EXCEPT
              !.sent = IF server.clients[id] = "null"
                       THEN SendMessage(server, id, "error", id)
                       ELSE BroadcastToRoom(server, server.clients[id],
                                            type, id, id),
              !.last = [handler |-> "relay", client |-> id, type |-> type]]
    /\ UNCHANGED browserVars

\* handlePlayVideo: the request goes to the whole room, the requester too
HandlePlayVideo ==
    /\ \E id \in DOMAIN server.clients :
          server' = [server EXCEPT
              !.sent = IF server.clients[id] = "null"
                       THEN SendMessage(server, id, "error", id)
                       ELSE BroadcastToRoom(server, server.clients[id],
                                            "play-video-request", id, 0),
              !.last = [handler |-> "play-video", client |-> id,
                        type |-> "play-video"]]
    /\ UNCHANGED browserVars

\* handleClientDisconnect, on the close of a client's socket
HandleClientDisconnect ==
    /\ \E id \in DOMAIN server.clients :
          LET left == LeaveRoom(server, id)
          IN  server' = [left EXCEPT
                  !.clients = Without(@, id),
                  !.sent = {m \in left.sent : m.to # id},
                  !.last = [handler |-> "disconnect", client |-> id,
                            type |-> "close"]]
    /\ UNCHANGED browserVars

(***************************************************************************)
(* recordSuccess and recordFailure called from outside the executor.       *)
(***************************************************************************)
RecordedMethods == {"webrtc", "direct"}

RecordSuccessCall ==
    /\ nRecords < MaxRecords
    /\ nRecords' = nRecords + 1
    /\ \E n \in RecordedMethods : RecordSuccess(n)
    /\ UNCHANGED <<engineVars, currentMethod, call, selection,
                   nCalls, report, test, plan, server>>

RecordFailureCall ==
    /\ nRecords < MaxRecords
    /\ nRecords' = nRecords + 1
    /\ \E n \in RecordedMethods : RecordFailure(n, "error")
    /\ UNCHANGED <<engineVars, currentMethod, call, selection,
                   nCalls, report, test, plan, server>>

\* a caller that reports the outcome of the method it was given by
\* selectBestMethod: recordSuccess(this.currentMethod, time)
RecordSuccessOfCurrent ==
    /\ currentMethod # "null"
    /\ nRecords < MaxRecords
    /\ nRecords' = nRecords + 1
    /\ RecordSuccess(currentMethod)
    /\ UNCHANGED <<engineVars, currentMethod, call, selection,
                   nCalls, report, test, plan, server>>

\* recordFailure(this.currentMethod, error, time)
RecordFailureOfCurrent ==
    /\ currentMethod # "null"
    /\ nRecords < MaxRecords
    /\ nRecords' = nRecords + 1
    /\ RecordFailure(currentMethod, "error")
    /\ UNCHANGED <<engineVars, currentMethod, call, selection,
                   nCalls, report, test, plan, server>>

\* a long run of failures: recordFailure is called for the methods of the
\* catalog in turn
RecordFailureInTurn ==
    /\ nRecords < MaxHistoryRecords
    /\ nRecords' = nRecords + 1
    /\ RecordFailure(Catalog[(nRecords % Len(Catalog)) + 1].name, "error")
    /\ UNCHANGED <<engineVars, currentMethod, call, selection,
                   nCalls, report, test, plan, server>>

(***************************************************************************)
(* Specifications.                                                         *)
(***************************************************************************)
Next ==
    \/ DetectDevice
    \/ DetectDeviceThrows
    \/ DetectNetwork
    \/ DetectMethodAvailability
    \/ SelectBestMethod
    \/ ResetMetrics
    \/ ExecuteWithFallback(MainCall)
    \/ StartAttempts(MainCall)
    \/ OperationSettles(MainCall)
    \/ TimerFires(MainCall)

Spec == Init /\ [][Next]_vars

NextRecord ==
    \/ RecordSuccessCall
    \/ RecordFailureCall
    \/ ResetMetrics

\* the executor with the scheduling of the engine: a timer that is due
\* fires, the continuation of an await runs, and an operation that settles
\* before its timeout does settle; an operation that outlives its timeout
\* may never settle
NextFair ==
    \/ DetectDevice
    \/ DetectDeviceThrows
    \/ DetectNetwork
    \/ DetectMethodAvailability
    \/ ExecuteWithFallback(MainCall)
    \/ StartAttempts(MainCall)
    \/ OperationSettles(MainCall)
    \/ TimerFires(MainCall)

SpecFair ==
    /\ Init /\ [][NextFair]_vars
    /\ WF_vars(TimerFires(MainCall))
    /\ WF_vars(StartAttempts(MainCall))
    /\ WF_vars(OperationSettles(MainCall) /\ call[MainCall].pc = "racing")

SpecRecord == Init /\ [][NextRecord]_vars

\* the executor with the observer of the selector's order
NextPlan ==
    \/ DetectDevice
    \/ DetectDeviceThrows
    \/ DetectNetwork
    \/ DetectMethodAvailability
    \/ ExecuteWithFallbackObserved(MainCall)
    \/ StartAttempts(MainCall)
    \/ OperationSettles(MainCall)
    \/ TimerFires(MainCall)

SpecPlan == Init /\ [][NextPlan]_vars

\* the executor next to a caller that selects on its own and reports the
\* outcomes of the current method
NextCurrent ==
    \/ DetectDevice
    \/ DetectDeviceThrows
    \/ DetectNetwork
    \/ DetectMethodAvailability
    \/ SelectBestMethod
    \/ RecordSuccessOfCurrent
    \/ RecordFailureOfCurrent
    \/ ExecuteWithFallback(MainCall)
    \/ StartAttempts(MainCall)
    \/ OperationSettles(MainCall)
    \/ TimerFires(MainCall)

\* in a browser with every capability
InitCurrent == Init /\ env = Capabilities

SpecCurrent == InitCurrent /\ [][NextCurrent]_vars

\* the signalling server on its own
NextSignal ==
    \/ HandleWebSocketConnection
    \/ HandleJoinRoom
    \/ HandleLeaveRoom
    \/ RelayMessage
    \/ HandlePlayVideo
    \/ HandleClientDisconnect

SpecSignal == Init /\ [][NextSignal]_vars

\* the test object on its own
NextTest ==
    \/ NewTeslaAutomatedTest
    \/ SelectOptimalMethodCall
    \/ TestSmartFallback

SpecTest == Init /\ [][NextTest]_vars

\* the executor with a caller that may give up a call in progress
NextAbort ==
    \/ DetectDevice
    \/ DetectDeviceThrows
    \/ DetectNetwork
    \/ DetectMethodAvailability
    \/ ExecuteWithFallback(MainCall)
    \/ StartAttempts(MainCall)
    \/ OperationSettles(MainCall)
    \/ TimerFires(MainCall)
    \/ CallerAborts(MainCall)

SpecAbort == Init /\ [][NextAbort]_vars

\* the classifier and the selector over the samples of the network
NextClassify ==
    \/ DetectDevice
    \/ DetectDeviceThrows
    \/ DetectNetworkCapabilities
    \/ DetectMethodAvailability
    \/ SelectBestMethod

SpecClassify == Init /\ [][NextClassify]_vars

\* two callers: executeWithFallback calls that overlap on the one engine,
\* in a browser without WebRTC
InitTwo == Init /\ env = {"websocket_support", "proxy_server"}

NextTwo ==
    \/ DetectDevice
    \/ DetectDeviceThrows
    \/ DetectNetwork
    \/ DetectMethodAvailability
    \/ \E c \in Calls : ExecuteWithFallback(c)
    \/ \E c \in Calls : StartAttempts(c)
    \/ \E c \in Calls : OperationSettles(c)
    \/ \E c \in Calls : TimerFires(c)

SpecTwo == InitTwo /\ [][NextTwo]_vars

\* the selector with a history: detection, selections and the records of
\* the selected method
NextSelect ==
    \/ DetectDevice
    \/ DetectDeviceThrows
    \/ DetectNetwork
    \/ DetectMethodAvailability
    \/ SelectBestMethod
    \/ RecordSuccessOfCurrent
    \/ RecordFailureOfCurrent
    \/ ResetMetrics

SpecSelect == Init /\ [][NextSelect]_vars

\* the metrics with reports taken of them, in a browser with every
\* capability (no step of this specification reads the environment)
InitReport == Init /\ env = Capabilities

NextReport ==
    \/ RecordSuccessCall
    \/ RecordFailureCall
    \/ ResetMetrics
    \/ GetPerformanceReport

SpecReport == InitReport /\ [][NextReport]_vars

\* the history beyond its limit
NextHistory ==
    \/ RecordFailureInTurn
    \/ ResetMetrics

SpecHistory == Init /\ [][NextHistory]_vars

(***************************************************************************)
(* Properties.                                                             *)
(***************************************************************************)
Ended(cr) == cr.pc \in {"returned", "threw"}

FailureRecordsOf(cr, n) ==
    Cardinality({i \in 1..Len(cr.recorded) :
        cr.recorded[i].method = n /\ ~cr.recorded[i].success})

SuccessRecordsOf(cr, n) ==
    Cardinality({i \in 1..Len(cr.recorded) :
        cr.recorded[i].method = n /\ cr.recorded[i].success})

AttemptsOf(cr, n) ==
    Cardinality({i \in 1..Len(cr.log) : cr.log[i].method = n})

\* C1: a call that has ended, whose first-tried strategy A fails on every
\* attempt (error or timeout) and whose next strategy B resolves, returned
\* B's result after recording exactly retries(A) failures of A and exactly
\* one success of B.
C1_FallbackToNextStrategy ==
    \A c \in Calls :
        LET cr == call[c] IN
        (/\ Ended(cr)
         /\ Len(cr.methodsToTry) >= 2
         /\ cr.playFunction[cr.methodsToTry[1]] # "resolve"
         /\ cr.playFunction[cr.methodsToTry[2]] = "resolve")
        => LET a == cr.methodsToTry[1]
               b == cr.methodsToTry[2]
           IN  /\ cr.outcome = "result"
               /\ cr.by = b
               /\ FailureRecordsOf(cr, a) = CatalogEntry(a).retries
               /\ SuccessRecordsOf(cr, b) = 1

\* C2: a call ends with a result, with the all-strategies-exhausted failure
\* or with the no-available-strategy failure, and it ends with a failure
\* only when no strategy was available or every strategy of the list has
\* used up its attempts.
C2_ThreeOutcomes ==
    \A c \in Calls :
        LET cr == call[c] IN
        Ended(cr) =>
            /\ cr.outcome \in {"result", "AllFailed", "NoAvailable"}
            /\ cr.outcome = "NoAvailable" => cr.log = << >>
            /\ cr.outcome = "AllFailed" =>
                  \A i \in 1..Len(cr.methodsToTry) :
                      AttemptsOf(cr, cr.methodsToTry[i]) =
                          CatalogEntry(cr.methodsToTry[i]).retries

\* the entries an aggregate failure has to carry for the call cr
EntriesOf(cr) ==
    [i \in 1..Len(cr.methodsToTry) |->
        [strategy |-> cr.methodsToTry[i],
         attempts |-> AttemptsOf(cr, cr.methodsToTry[i])]]

\* C3: a call that has ended and in which the operation of every strategy
\* of the list fails, failed with the aggregate failure, which carries one
\* entry per strategy with the attempts made, each strategy having been
\* tried as often as its retries allow.
C3_AggregateFailure ==
    \A c \in Calls :
        LET cr == call[c] IN
        (/\ Ended(cr)
         /\ cr.methodsToTry # << >>
         /\ \A i \in 1..Len(cr.methodsToTry) :
               cr.playFunction[cr.methodsToTry[i]] # "resolve")
        => /\ cr.outcome = "AllFailed"
           /\ Len(cr.errorEntries) = Len(cr.methodsToTry)
           /\ \A i \in 1..Len(cr.errorEntries) :
               /\ cr.errorEntries[i].strategy = cr.methodsToTry[i]
               /\ cr.errorEntries[i].attempts =
                      CatalogEntry(cr.methodsToTry[i]).retries
               /\ AttemptsOf(cr, cr.methodsToTry[i]) =
                      cr.errorEntries[i].attempts

\* C4: an attempt whose timeout fired before its operation settled has a
\* failure record and no success record, and the call did not return the
\* result of that attempt.
C4_SingleResolution ==
    \A c \in Calls :
        LET cr == call[c] IN
        \A id \in 1..Len(cr.log) :
            cr.log[id].raced = "timeout" =>
                /\ \E i \in 1..Len(cr.recorded) :
                      cr.recorded[i].id = id /\ ~cr.recorded[i].success
                /\ \A i \in 1..Len(cr.recorded) :
                      cr.recorded[i].id = id => ~cr.recorded[i].success
                /\ ~(cr.outcome = "result" /\ id = Len(cr.log))

\* C5: a strategy with a required capability that the environment lacks is
\* not the selected method, is in no list of methods to try and has no
\* attempt.
C5_RequirementsRespected ==
    \A i \in 1..Len(Catalog) :
        ~(Catalog[i].requirements \subseteq env) =>
            /\ currentMethod # Catalog[i].name
            /\ \A c \in Calls :
                /\ call[c].selected # Catalog[i].name
                /\ \A j \in 1..Len(call[c].methodsToTry) :
                      call[c].methodsToTry[j] # Catalog[i].name
                /\ AttemptsOf(call[c], Catalog[i].name) = 0

\* the lightweight-first order restricted to the available strategies
LightweightAvailable ==
    LET IsAvailable(n) == available[n] = "true"
    IN  SelectSeq(<<"direct", "proxy", "transcode", "webrtc">>, IsAvailable)

\* C6: when the network is classified slow, the order the selector
\* produces is direct, proxy, transcode, webrtc restricted to the available
\* strategies, whatever the success rates are.
C6_SlowLightweightFirst ==
    (/\ ~networkInfo.null
     /\ GetNetworkSpeedCategory = "slow"
     /\ \E n \in MethodNames : available[n] = "true")
    => Names(FinalMethods) = LightweightAvailable

\* the rate a record of n starts from, and whether this step recorded a
\* success or a failure of n
StoredOrHalf(n) == IF n \in DOMAIN successRate THEN successRate[n] ELSE Half
SuccessRecorded(n) ==
    /\ Len(connectionTime') = Len(connectionTime) + 1
    /\ connectionTime'[Len(connectionTime')] = n
FailureRecorded(n) ==
    /\ Len(attemptHistory') = Len(attemptHistory) + 1
    /\ attemptHistory'[Len(attemptHistory')].method = n

Min(a, b) == IF a <= b THEN a ELSE b
Max(a, b) == IF a <= b THEN b ELSE a

\* the rate a record of n starts from in the code: 0.5 when absent or 0
StartRate(n) ==
    IF n \in DOMAIN successRate /\ successRate[n] # Zero
    THEN successRate[n] ELSE Half

C8_RateInUnitInterval ==
    \A n \in DOMAIN successRate :
        DblLeq(Zero, successRate[n]) /\ DblLeq(successRate[n], One)

\* six successes of one method in a row: the sixth sum exceeds 1
C8_Witness ==
    /\ nRecords = 6
    /\ connectionTime = <<"webrtc", "webrtc", "webrtc", "webrtc", "webrtc",
                          "webrtc">>
    /\ attemptHistory = << >>
    /\ "webrtc" \in DOMAIN successRate
    /\ successRate["webrtc"] = One

\* C9: a selectBestMethod or executeWithFallback step taken while no
\* strategy is available selects nothing, and a call started in such a
\* state ends at once with the no-available-strategy error, with no
\* operation started, no timer set, no record made and the metrics
\* unchanged.
C9_NoAvailableStrategy ==
    [][(\A n \in MethodNames : available[n] # "true") =>
          /\ currentMethod' = currentMethod
          /\ selection' \in {selection, "throw"}
          /\ \A c \in Calls :
                call'[c] # call[c] =>
                    /\ call'[c].pc = "threw"
                    /\ call'[c].outcome = "NoAvailable"
                    /\ call'[c].log = << >>
                    /\ call'[c].recorded = << >>
                    /\ call'[c].ops = {} /\ call'[c].timers = {}
                    /\ UNCHANGED metricVars]_vars

C9_Witness ==
    /\ call[MainCall].outcome = "NoAvailable"
    /\ selection = "throw"
    /\ \A n \in MethodNames : available[n] # "true"

\* C10: an attempt whose operation won the race is the last operation the
\* call started, and the call has returned the result of that attempt.
C10_SuccessEndsCall ==
    \A c \in Calls :
        LET cr == call[c] IN
        \A id \in 1..Len(cr.log) :
            cr.log[id].raced = "resolved" =>
                /\ id = Len(cr.log)
                /\ cr.pc = "returned"
                /\ cr.outcome = "result"
                /\ cr.by = cr.log[id].method

C10_Witness ==
    /\ call[MainCall].pc = "returned"
    /\ call[MainCall].log # << >>
    /\ call[MainCall].log[Len(call[MainCall].log)].raced = "resolved"
    /\ Len(call[MainCall].methodsToTry) >= 2

\* the score of C11, times 10000 * maxPriorityValue: 0.7 * successRate
\* + 0.3 * (maxPriorityValue - priority) / maxPriorityValue, the rate of a
\* strategy without a record being 0.5
ClaimedScore(n, maxPriorityValue) ==
    7 * maxPriorityValue * Milli(StoredOrHalf(n))
        + 3000 * (maxPriorityValue - CatalogEntry(n).priority)

\* C11: unless the network is slow, the order the selector produces is
\* descending in score = 0.7*successRate + 0.3*(maxPriorityValue -
\* priority)/maxPriorityValue (maxPriorityValue read as the largest
\* priority, 4, or as the 5 of the code), so its first entry has the
\* highest score.
C11_ScoreOrder ==
    GetNetworkSpeedCategory # "slow" =>
        \E maxPriorityValue \in {4, 5} :
            \A i \in 1..(Len(FinalMethods) - 1) :
                ClaimedScore(FinalMethods[i].name, maxPriorityValue)
                    >= ClaimedScore(FinalMethods[i + 1].name,
                                    maxPriorityValue)

\* C12: unless the network is slow, of two strategies in the order the
\* selector produces that have priorities 1 and 2 and the same success
\* rate (0.5 when none is stored), the one with priority 1 comes first.
C12_PriorityBreaksTie ==
    GetNetworkSpeedCategory # "slow" =>
        \A i, j \in 1..Len(FinalMethods) :
            (/\ FinalMethods[i].priority = 1
             /\ FinalMethods[j].priority = 2
             /\ StoredOrHalf(FinalMethods[i].name)
                    = StoredOrHalf(FinalMethods[j].name))
            => i < j

\* webrtc is back at 0.5 after records, proxy has none, both are in the
\* order
C12_Witness ==
    /\ GetNetworkSpeedCategory # "slow"
    /\ {"webrtc", "proxy"} \subseteq AvailableNames
    /\ nRecords >= 2
    /\ "webrtc" \in DOMAIN successRate
    /\ "proxy" \notin DOMAIN successRate
    /\ successRate["webrtc"] = Half
    /\ Names(FinalMethods)[1] = "webrtc"
    /\ Names(FinalMethods)[2] = "proxy"

\* C13: the history never holds more than 50 records, and a record call
\* appends its record at the end, dropping the first (oldest) record when
\* the history already holds 50 and keeping the others in their order.
C13_BoundedHistory ==
    [][nRecords' # nRecords =>
          LET new == attemptHistory'[Len(attemptHistory')]
          IN  /\ attemptHistory' # << >>
              /\ Len(attemptHistory') <= 50
              /\ attemptHistory' =
                    IF Len(attemptHistory) < 50
                    THEN Append(attemptHistory, new)
                    ELSE Append(Tail(attemptHistory), new)]_vars

\* 52 records without a reset: the first two (webrtc, proxy) are gone
C13_Witness ==
    /\ nRecords = 52
    /\ Len(attemptHistory) = 50
    /\ attemptHistory[1].method = "transcode"
    /\ attemptHistory[2].method = "direct"
    /\ attemptHistory[50].method = "direct"

RECURSIVE RetryBudget(_)
RetryBudget(names) ==
    IF names = << >> THEN 0
    ELSE CatalogEntry(Head(names)).retries + RetryBudget(Tail(names))

Running(cr) == cr.pc \in {"selected", "racing", "delay"}

\* C15: when timers fire, a call that is running ends, also when its
\* operation never settles; an attempt in progress has its timeout timer
\* pending, and a call starts no more operations than the retries of the
\* strategies it tries add up to.
C15_Terminates ==
    /\ [](\A c \in Calls :
            LET cr == call[c]
            IN  /\ Len(cr.log) <= RetryBudget(cr.methodsToTry)
                /\ cr.pc = "racing" =>
                      \E t \in cr.timers :
                          /\ t.id = Len(cr.log) /\ t.kind = "timeout"
                          /\ t.ms = CurrentMethodOf(cr).timeout)
    /\ Running(call[MainCall]) ~> Ended(call[MainCall])

\* the call has ended on the timeout of an operation that has not settled
C15_Witness ==
    LET cr == call[MainCall]
    IN  /\ Ended(cr)
        /\ cr.lastError = "timeout"
        /\ cr.ops # {}
        /\ cr.playFunction[cr.methodsToTry[1]] = "late"

\* what C16 says of a plan entry e made from the catalog entry m under the
\* network condition speed
AdjustedAsClaimed(e, m, speed) ==
    /\ e.name = m.name /\ e.priority = m.priority
    /\ CASE speed = "slow" ->
                e.timeout = 2 * m.timeout /\ e.retries = m.retries + 1
         [] speed = "medium" ->
                2 * e.timeout = 3 * m.timeout /\ e.retries = m.retries
         [] speed = "fast" ->
                /\ 10 * e.timeout = 8 * m.timeout
                /\ e.retries = m.retries /\ e.retries >= 1
         [] OTHER -> e.timeout = m.timeout /\ e.retries = m.retries

\* C16: every entry of the order the selector produces carries the
\* catalog timeout and retries of its strategy adjusted by the network
\* condition: slow timeout*2 and retries+1, medium timeout*1.5, fast
\* timeout*0.8 with retries unchanged and at least 1, unknown both
\* unchanged.
C16_NetworkAdjustment ==
    /\ \A i \in 1..Len(FinalMethods) :
          AdjustedAsClaimed(FinalMethods[i],
                            CatalogEntry(FinalMethods[i].name),
                            GetNetworkSpeedCategory)
    /\ \A i \in 1..Len(Catalog) :
          \A speed \in {"slow", "medium", "fast", "unknown"} :
              AdjustedAsClaimed(AdjustForNetwork(Catalog[i], speed),
                                Catalog[i], speed)

\* the four strategies in the plan of a slow network
C16_Witness ==
    /\ GetNetworkSpeedCategory = "slow"
    /\ Len(FinalMethods) = 4
    /\ \E i \in 1..4 :
          /\ FinalMethods[i].name = "proxy"
          /\ FinalMethods[i].timeout = 30000
          /\ FinalMethods[i].retries = 4

\* C17: this.methods always holds the catalog entries as registered (name,
\* priority, timeout, retries, in registration order), whatever selections
\* and calls were made, and a step that selects a strategy changes no
\* successRate, no history record and no other metric.
C17_SelectionFrame ==
    /\ [](methods = Catalog)
    /\ [][(selection' # selection \/ currentMethod' # currentMethod)
            => UNCHANGED metricVars]_vars

\* a second executeWithFallback call has selected on a slow network, where
\* the plan doubles the timeouts, after a success was recorded
C17_Witness ==
    /\ nCalls = 2
    /\ call[MainCall].pc = "selected"
    /\ GetNetworkSpeedCategory = "slow"
    /\ FinalMethods[1].timeout = 2 * Catalog[1].timeout
    /\ successRate # NoRates
    /\ methods = Catalog

\* C18: an attempt that failed as attempt k of its strategy (counted from
\* 1) with attempts left is followed by a wait of 1000 * k ms and then by
\* attempt k + 1 of the same strategy; the last attempt of a strategy is
\* followed, without a wait, by the first attempt of the next strategy or
\* by the end of the list.
C18_Backoff ==
    \A c \in Calls :
        LET cr == call[c] IN
        \A id \in 1..Len(cr.log) :
            cr.log[id].raced \in {"rejected", "timeout"} =>
                LET m == CatalogEntry(cr.log[id].method)
                    k == cr.log[id].attempt + 1
                    waiting == \E t \in cr.timers :
                                  t.kind = "delay" /\ t.id = id
                IN  IF k < m.retries
                    THEN \/ /\ id = Len(cr.log)
                            /\ cr.pc = "delay"
                            /\ \E t \in cr.timers :
                                  /\ t.kind = "delay" /\ t.id = id
                                  /\ t.ms = 1000 * k
                         \/ /\ id < Len(cr.log)
                            /\ cr.log[id + 1].method = m.name
                            /\ cr.log[id + 1].attempt = k
                            /\ ~waiting
                    ELSE /\ ~waiting
                         /\ \/ /\ id < Len(cr.log)
                               /\ cr.log[id + 1].method # m.name
                               /\ cr.log[id + 1].attempt = 0
                            \/ /\ id = Len(cr.log)
                               /\ cr.outcome = "AllFailed"

\* C19: while no more than 20 attempts have been recorded since the last
\* reset, errorRate is the number of recorded failures divided by the
\* number of recorded attempts, successes and failures alike, and 0 when
\* there is none.
C19_ErrorRate ==
    LET failures == Len(attemptHistory)
        successes == Len(connectionTime)
    IN  failures + successes <= 20 =>
            IF failures + successes = 0 THEN errorRate.num = 0
            ELSE errorRate.num * (failures + successes)
                     = failures * errorRate.den

\* what is read through report.metrics now
ReportedMetrics ==
    IF report.metrics.live THEN Metrics ELSE report.metrics.value

\* C20: the success rates, the error rate and the records seen through a
\* report are those of the moment it was taken, whatever was recorded or
\* reset since.
C20_SnapshotImmutable ==
    report.taken =>
        /\ ReportedMetrics.successRate = report.metricsWhenTaken.successRate
        /\ ReportedMetrics.errorRate = report.metricsWhenTaken.errorRate
        /\ ReportedMetrics.connectionTime
              = report.metricsWhenTaken.connectionTime

\* the records of successes of n in the engine's list, in the calls'
\* own accounts, and the records of failures in the calls' accounts
SuccessesLogged(n) ==
    Cardinality({i \in 1..Len(connectionTime) : connectionTime[i] = n})

RECURSIVE SumOver(_, _)
SumOver(f, S) ==
    IF S = {} THEN 0
    ELSE LET x == CHOOSE y \in S : TRUE IN f[x] + SumOver(f, S \ {x})

\* C21: with overlapping calls no record is lost: every success a call
\* has recorded is in the engine's list, every rate is the result of
\* applying the listed successes of its strategy one at a time to 0.5, a
\* strategy without a record has no rate, and the history holds one record
\* per failure recorded.
C21_SerializedRecording ==
    /\ \A n \in MethodNames :
          /\ SuccessesLogged(n)
                >= SumOver([c \in Calls |-> SuccessRecordsOf(call[c], n)],
                           Calls)
          /\ IF SuccessesLogged(n) = 0 THEN n \notin DOMAIN successRate
             ELSE /\ n \in DOMAIN successRate
                  /\ Milli(successRate[n])
                        = Min(1000, 500 + 100 * SuccessesLogged(n))
    /\ Len(attemptHistory)
          >= SumOver([c \in Calls |->
                        Cardinality({i \in 1..Len(call[c].recorded) :
                                        ~call[c].recorded[i].success})],
                     Calls)

\* both callers have been given the result of proxy
C21_Witness ==
    /\ \A c \in Calls : call[c].pc = "returned" /\ call[c].by = "proxy"
    /\ connectionTime = <<"proxy", "proxy">>
    /\ Milli(successRate["proxy"]) = 700

\* C22: a recognised label decides the class whatever the downlink and the
\* estimate are (slow-2g and 2g slow, 3g medium, 4g fast), and with an
\* unrecognised label a downlink that is present decides it whatever the
\* estimate is: below 1 Mbit/s slow, below 10 medium, else fast.
C22_ClassifierPrecedence ==
    ~networkInfo.null =>
        LET label == networkInfo.effective_type
            downlink == networkInfo.downlink
        IN  /\ label \in {"slow-2g", "2g"} => GetNetworkSpeedCategory = "slow"
            /\ label = "3g" => GetNetworkSpeedCategory = "medium"
            /\ label = "4g" => GetNetworkSpeedCategory = "fast"
            /\ (label \notin {"slow-2g", "2g", "3g", "4g"}
                    /\ downlink # Absent) =>
                  GetNetworkSpeedCategory =
                      IF downlink < 1000 THEN "slow"
                      ELSE IF downlink < 10000 THEN "medium"
                      ELSE "fast"

\* the position of a strategy in the catalog as registered
Registration(n) == CHOOSE i \in 1..Len(Catalog) : Catalog[i].name = n

\* the score of a strategy as a function of the stored rates alone
ScoreOfRates(n) ==
    7 * Milli(StartRate(n)) + 3000 * (5 - Catalog[Registration(n)].priority)

\* the strategies that a selection reading only the availability and the
\* rates has to put before n: those of a higher score, and those of the
\* same score registered earlier
Before(n) ==
    {m \in AvailableNames :
        \/ ScoreOfRates(m) > ScoreOfRates(n)
        \/ ScoreOfRates(m) = ScoreOfRates(n)
              /\ Registration(m) < Registration(n)}

C24_CancellationStops ==
    /\ [](\A c \in Calls :
            call[c].aborted => call[c].ops = {} /\ call[c].timers = {})
    /\ [][\A c \in Calls :
            (call[c].aborted /\ call'[c].aborted)
                => Len(call'[c].log) = Len(call[c].log)]_vars

\* the method the thresholds give for a bandwidth
MethodByThreshold(bandwidth) ==
    CASE bandwidth > 3000000 -> "direct"
      [] bandwidth > 800000 /\ bandwidth <= 3000000 -> "proxy"
      [] OTHER -> "transcode"

\* C25: selectOptimalMethod gives direct above 3,000,000, proxy above
\* 800,000 up to 3,000,000 and transcode otherwise, for every bandwidth;
\* and a run of testSmartFallback that has ended has returned, with the
\* three scenarios (5,000,000 direct, 1,000,000 proxy, 500,000 transcode)
\* all selected correctly and an accuracy of at least 0.8.
C25_SmartFallbackTest ==
    /\ test.selected.bandwidth # Absent
          => test.selected.method = MethodByThreshold(test.selected.bandwidth)
    /\ test.outcome # "none"
          => /\ test.outcome = "returned"
             /\ Len(test.results) = 3
             /\ \A j \in 1..3 :
                   /\ test.results[j].correct
                   /\ test.results[j].selected =
                          MethodByThreshold(test.results[j].bandwidth)
             /\ test.results[1].selected = "direct"
             /\ test.results[2].selected = "proxy"
             /\ test.results[3].selected = "transcode"
             /\ 10 * test.correctSelections >= 8 * Len(test.results)

\* the plan's entry for the strategy n: the catalog entry with the timeout
\* and the retries adjusted to the network condition
Effective(n) ==
    IF networkInfo.null THEN Catalog[Registration(n)]
    ELSE AdjustForNetwork(Catalog[Registration(n)], GetNetworkSpeedCategory)

\* C26: every attempt of a call runs with the effective timeout of its
\* strategy, and in a call that has ended a strategy that was tried and
\* whose operation fails every time was attempted as often as its effective
\* retries say.
C26_ExecutorRunsPlan ==
    \A c \in Calls :
        LET cr == call[c] IN
        /\ \A id \in 1..Len(cr.log) :
              cr.log[id].timeout = Effective(cr.log[id].method).timeout
        /\ Ended(cr) =>
              \A id \in 1..Len(cr.log) :
                  cr.playFunction[cr.log[id].method] # "resolve" =>
                      AttemptsOf(cr, cr.log[id].method)
                          = Effective(cr.log[id].method).retries

\* the strategies a call has attempted, in the order of their first attempt
RECURSIVE TriedInOrder(_)
TriedInOrder(log) ==
    IF log = << >> THEN << >>
    ELSE LET before == TriedInOrder(SubSeq(log, 1, Len(log) - 1))
             n == log[Len(log)].method
         IN  IF \E i \in 1..Len(before) : before[i] = n THEN before
             ELSE Append(before, n)

\* C27: the i-th strategy a call attempts is the i-th strategy of the order
\* the selector ranked for that call, for every position i: the list the
\* call goes through is that order, what the call has tried so far is the
\* beginning of it, and a call that ended with every operation failing has
\* tried the whole of it.
C27_OrderFollowed ==
    \A c \in Calls :
        LET cr == call[c]
            tried == TriedInOrder(cr.log)
        IN  /\ cr.pc \notin {"idle", "selected"}
                  => cr.methodsToTry = plan[c]
            /\ Len(tried) <= Len(plan[c])
            /\ \A i \in 1..Len(tried) : tried[i] = plan[c][i]
            /\ (/\ Ended(cr)
                 /\ cr.log # << >>
                 /\ \A i \in 1..Len(plan[c]) :
                       cr.playFunction[plan[c][i]] # "resolve")
                => tried = plan[c]

\* the records a call has made of its attempt id
RecordsOf(cr, id) == {i \in 1..Len(cr.recorded) : cr.recorded[i].id = id}

\* C28: every attempt of a call whose race is decided has exactly one
\* record, a success record if its operation resolved and a failure record
\* otherwise; so in a call that has ended the failure records are as many
\* as the attempts that failed.
C28_EveryAttemptRecorded ==
    \A c \in Calls :
        LET cr == call[c] IN
        /\ \A id \in 1..Len(cr.log) :
              cr.log[id].raced # "pending" =>
                  /\ Cardinality(RecordsOf(cr, id)) = 1
                  /\ \A i \in RecordsOf(cr, id) :
                        cr.recorded[i].success
                            <=> cr.log[id].raced = "resolved"
        /\ Ended(cr) =>
              Cardinality({i \in 1..Len(cr.recorded) :
                              ~cr.recorded[i].success})
                  = Cardinality({id \in 1..Len(cr.log) :
                        cr.log[id].raced \in {"rejected", "timeout"}})

\* C29: direct, which requires no capability, is available in every state,
\* before the capability detection has finished and after it has failed
\* too, and no selection and no call fails with the no-available-strategy
\* error.
C29_DirectAlwaysAvailable ==
    /\ available["direct"] = "true"
    /\ selection # "throw"
    /\ \A c \in Calls : call[c].outcome # "NoAvailable"

\* C30: a timeout timer is pending only while its attempt is racing: the
\* timer of an attempt whose operation has settled is cancelled, and a call
\* that has returned or failed has left no timeout timer pending.
C30_LosingTimerCancelled ==
    \A c \in Calls :
        LET cr == call[c] IN
        \A t \in cr.timers :
            t.kind = "timeout" =>
                /\ ~Ended(cr)
                /\ cr.pc = "racing"
                /\ t.id = Len(cr.log)

\* the order on a newly constructed engine with the availability of this
\* state: no rate is stored, so the scores differ by the priorities only
FreshOrder ==
    LET IsAvailable(n) == available[n] = "true"
    IN  SelectSeq(<<"webrtc", "proxy", "transcode", "direct">>, IsAvailable)

\* a step that changes the metrics without recording anything
MetricsReset == nRecords' = nRecords /\ metricVars' # metricVars

\* C31: a reset leaves no rate, no history record and the error rate 0,
\* and changes neither the catalog, the availability, the device and the
\* network information nor the current method; a selection made after it
\* gives the order of a new engine with the same availability and network;
\* and a reset of metrics that are in their initial state changes nothing.
C31_ResetFrame ==
    /\ [][MetricsReset =>
             /\ successRate' = NoRates
             /\ attemptHistory' = << >>
             /\ connectionTime' = << >>
             /\ errorRate'.num = 0
             /\ UNCHANGED <<engineVars, currentMethod>>]_vars
    /\ []((successRate = NoRates /\ attemptHistory = << >>)
             => Names(FinalMethods) = FreshOrder)
    /\ [][(/\ successRate = NoRates /\ attemptHistory = << >>
            /\ connectionTime = << >> /\ errorRate.num = 0
            /\ nRecords' = nRecords)
               => UNCHANGED metricVars]_vars

\* records were made and then wiped, with four strategies available and a
\* method selected
C31_Witness ==
    /\ nRecords >= 3
    /\ successRate = NoRates /\ attemptHistory = << >>
    /\ connectionTime = << >>
    /\ currentMethod # "null"
    /\ Names(FinalMethods) = <<"webrtc", "proxy", "transcode", "direct">>

\* C32: a recorded failure never raises the rate of its strategy and a
\* recorded success never lowers it, whatever the stored rate is, 0
\* included (a strategy without a stored rate counts with 0.5).
C32_MonotoneRecords ==
    [][\A n \in MethodNames :
          /\ FailureRecorded(n) => DblLeq(successRate'[n], StoredOrHalf(n))
          /\ SuccessRecorded(n) => DblLeq(StoredOrHalf(n), successRate'[n])]_vars

\* C33: the score of a ranked strategy that has a stored rate is made of
\* that rate, a rate of 0 included; 0.5 stands in only for a strategy
\* without a record.  So a strategy at rate 0 scores below what it would
\* score at any rate between 0 and 0.5.
C33_DefaultOnlyWithoutRecord ==
    \A i \in 1..Len(FinalMethods) :
        LET n == FinalMethods[i].name
            own == 3000 * (5 - Catalog[Registration(n)].priority)
        IN  /\ n \in DOMAIN successRate
                  => Score(n) = 7 * Milli(successRate[n]) + own
            /\ n \notin DOMAIN successRate => Score(n) = 7 * 500 + own

\* the longest run of records of one strategy looked at: a rate is back at
\* 0.4 with the seventh failure and stays at 1 from the fifth success on
MaxStreak == 7

\* C34: for every two strategies a and b, a of the more preferred
\* priority, some number of recorded failures of a and of recorded
\* successes of b gives rates with which b is scored above a, that is
\* ranked before a by a selection on a network that is not slow.
C34_HistoryOverrides ==
    \A a, b \in MethodNames :
        Catalog[Registration(a)].priority < Catalog[Registration(b)].priority
            => \E f, s \in 0..MaxStreak :
                  ScoreWithRate(b, RateAfterSuccesses(s))
                      > ScoreWithRate(a, RateAfterFailures(f))

\* C35: when a call returns a result, currentMethod is the strategy whose
\* attempt gave that result, whether it was the one selected at the start
\* of the call or one reached later.
C35_CurrentIsWinner ==
    [][\A c \in Calls :
          (call[c].pc # "returned" /\ call'[c].pc = "returned")
              => currentMethod' = call'[c].by]_vars

\* a network sample without a usable signal: no recognised label, no
\* downlink, no bandwidth estimate
NoSignal ==
    /\ ~networkInfo.null
    /\ networkInfo.effective_type \notin {"slow-2g", "2g", "3g", "4g"}
    /\ networkInfo.downlink = Absent
    /\ networkInfo.bandwidth_estimate = Absent

\* C36: with a sample that carries no usable signal the classifier returns
\* unknown, and the selector adjusts no timeout and no retries.
C36_UnknownWithoutSignal ==
    NoSignal =>
        /\ GetNetworkSpeedCategory = "unknown"
        /\ LET adjusted == OptimizeMethodsByNetwork(AvailableMethods)
           IN  \A i \in 1..Len(adjusted) :
                  LET m == Catalog[Registration(adjusted[i].name)]
                  IN  /\ adjusted[i].timeout = m.timeout
                      /\ adjusted[i].retries = m.retries

\* C37: every client id in the client set of a room is the id of a
\* connected client whose roomId is that room, and no registered room has
\* an empty client set.
C37_RoomMembership ==
    \A r \in DOMAIN server.rooms :
        /\ server.rooms[r] # {}
        /\ \A k \in server.rooms[r] :
              k \in DOMAIN server.clients /\ server.clients[k] = r

\* C38: an offer, answer or ice-candidate goes only to clients whose room
\* is now the room of the sender, and not to the sender; when the sender
\* is in no room, the sender gets an error and nobody anything else.
C38_RelayWithinRoom ==
    server.last.handler = "relay" =>
        LET sender == server.last.client
        IN  /\ \A m \in server.sent :
                  m.type \in RelayTypes =>
                      /\ m.to # sender
                      /\ m.from = sender
                      /\ server.clients[m.to] = server.clients[sender]
            /\ server.clients[sender] = "null" =>
                  server.sent = {[to |-> sender, type |-> "error",
                                  from |-> sender]}

====
